---- MODULE Spec2Model ----
(***************************************************************************)
(* Model of the Overleaf MCP server (src/server.py, src/latex_utils.py,    *)
(* src/overleaf_git.py).                                                   *)
(*                                                                         *)
(* Text is a sequence of one-character strings, so that the regular        *)
(* expressions of the source are modelled character by character.          *)
(***************************************************************************)
EXTENDS Integers, Sequences, FiniteSets, TLC

VARIABLES config, remote, TMPDIRS, calls, last

vars == <<config, remote, TMPDIRS, calls, last>>

----------------------------------------------------------------------------
(* Characters and character classes of Python's re / str.                  *)

BS == "\\"

Lower == {"a","b","c","d","e","f","g","h","i","j","k","l","m",
          "n","o","p","q","r","s","t","u","v","w","x","y","z"}

Upper == {"A","B","C","D","E","F","G","H","I","J","K","L","M",
          "N","O","P","Q","R","S","T","U","V","W","X","Y","Z"}

Digit == {"0","1","2","3","4","5","6","7","8","9"}

\* [a-zA-Z]
Alpha == Lower \cup Upper

\* \w
WordChar == Alpha \cup Digit \cup {"_"}

\* \s, and the characters str.strip() removes
Space == {" ", "\t", "\n", "\r", "\f"}

\* [ \t]
Blank == {" ", "\t"}

\* the literal lit occurs in s at position i
LitAt(s, i, lit) ==
    /\ i >= 1
    /\ i + Len(lit) - 1 <= Len(s)
    /\ \A k \in 1..Len(lit) : s[i + k - 1] = lit[k]

\* the least element of a non-empty set of integers
Least(S) == CHOOSE x \in S : \A y \in S : x <= y

\* the greatest element of a non-empty set of integers
Greatest(S) == CHOOSE x \in S : \A y \in S : y <= x

\* the least element of a set of positions, or 0 when the set is empty
First(S) == IF S = {} THEN 0 ELSE Least(S)

\* the first position from i on that holds no character of class, which is
\* Len(s) + 1 when there is none
SkipClass(s, i, class) ==
    IF i > Len(s) THEN i
    ELSE CHOOSE j \in i..(Len(s) + 1) :
            /\ j = Len(s) + 1 \/ s[j] \notin class
            /\ \A k \in i..(j - 1) : s[k] \in class

\* greedy whitespace from position i: the first position that holds no whitespace
SkipSpace(s, i) == SkipClass(s, i, Space)

\* \b between s[i-1] and s[i]
WordBoundary(s, i) ==
    LET before == i - 1 >= 1 /\ i - 1 <= Len(s) /\ s[i - 1] \in WordChar
        after  == i >= 1 /\ i <= Len(s) /\ s[i] \in WordChar
    IN before # after

\* s[a .. b-1]
Slice(s, a, b) == SubSeq(s, a, b - 1)

\* str.strip()
lstrip(s) == SubSeq(s, SkipSpace(s, 1), Len(s))

rstrip(s) ==
    SubSeq(s, 1, CHOOSE k \in 0..Len(s) :
                    /\ k = 0 \/ s[k] \notin Space
                    /\ \A j \in (k + 1)..Len(s) : s[j] \in Space)

strip(s) == rstrip(lstrip(s))

----------------------------------------------------------------------------
(* Words of the patterns.                                                  *)

section == <<"s","e","c","t","i","o","n">>
sect == <<"s","e","c","t">>
subsection == <<"s","u","b">> \o section
subsubsection == <<"s","u","b">> \o subsection
chapter == <<"c","h","a","p","t","e","r">>
cvsection == <<"c","v">> \o section
EndDocument == <<BS,"e","n","d","{","d","o","c","u","m","e","n","t","}">>

----------------------------------------------------------------------------
(* latex_utils.normalize_latex_content: every backslash followed by the    *)
(* letter n becomes a backslash followed by a line break.                  *)

\* the replacement from position i on; it recurs once per occurrence
RECURSIVE NormalizeFrom(_, _)
NormalizeFrom(s, i) ==
    LET at == {k \in i..Len(s) : LitAt(s, k, <<BS, "n">>)}
    IN  IF at = {} THEN Slice(s, i, Len(s) + 1)
        ELSE Slice(s, i, Least(at)) \o <<BS, "\n">> \o NormalizeFrom(s, Least(at) + 2)

normalize_latex_content(s) == NormalizeFrom(s, 1)

----------------------------------------------------------------------------
(* The section pattern, the same text in server.update_overleaf_section    *)
(* and in latex_utils.extract_section_body, compiled with re.DOTALL:       *)
(*   group 1: backslash CMD, an optional star, {TITLE}, greedy whitespace; *)
(*   group 2: any characters, as few as possible;                          *)
(*   lookahead: backslash CMD \b, or \section\b, \subsection\b,           *)
(*              \chapter\b, \cvsection\b, or \end{document}.              *)

\* The heading (backslash CMD, optional star, {TITLE}) at position i: the
\* position after its closing brace, or 0.  The optional star is greedy;
\* giving it back leaves a star where the brace is needed.
HeadingEnd(text, i, cmd, title) ==
    LET a == i + 1 + Len(cmd)
        b == IF a <= Len(text) /\ text[a] = "*" THEN a + 1 ELSE a
    IN  IF /\ text[i] = BS
           /\ LitAt(text, i + 1, cmd)
           /\ LitAt(text, b, <<"{">> \o title \o <<"}">>)
        THEN b + Len(title) + 2
        ELSE 0

\* backslash WORD followed by a word boundary, at position j
CommandAt(text, j, word) ==
    /\ text[j] = BS
    /\ LitAt(text, j + 1, word)
    /\ WordBoundary(text, j + 1 + Len(word))

\* the alternatives of the lookahead, at position j; each begins with a
\* backslash
StopAt(text, j, cmd) ==
    /\ text[j] = BS
    /\ \/ \E word \in {cmd, section, subsection, chapter, cvsection} :
             CommandAt(text, j, word)
       \/ LitAt(text, j, EndDocument)

\* Group 2 and the lookahead from position p: the first position at or after p where the
\* lookahead holds, or 0 when there is none (then the match fails here).
BodyEnd(text, p, cmd) == First({j \in p..Len(text) : StopAt(text, j, cmd)})

\* no match
NoMatch == [ok |-> FALSE, start |-> 0, body |-> 0, end |-> 0]

\* a match: group 1 is text[start .. body-1], group 2 is text[body .. end-1]
Groups(i, p, j) ==
    IF j = 0 THEN NoMatch ELSE [ok |-> TRUE, start |-> i, body |-> p, end |-> j]

\* The match of the whole pattern that starts at position i, if any.  Giving
\* back whitespace from group 1 cannot help: what is given back is no stop
\* token.
MatchAt(text, i, cmd, title) ==
    LET h == HeadingEnd(text, i, cmd, title)
        p == SkipSpace(text, h)
    IN  IF h = 0 THEN NoMatch ELSE Groups(i, p, BodyEnd(text, p, cmd))

\* the match that starts at position i, where i = 0 says that no position
\* starts one
Leftmost(text, i, cmd, title) ==
    IF i = 0 THEN NoMatch ELSE MatchAt(text, i, cmd, title)

\* regex.search(text): the leftmost match
search(text, cmd, title) ==
    Leftmost(text, First({i \in 1..Len(text) : MatchAt(text, i, cmd, title).ok}),
             cmd, title)

\* group 2 of the match m, the value extract_section_body returns;
\* found = FALSE stands for None
Group2(full_text, m) ==
    IF ~m.ok THEN [found |-> FALSE, body |-> <<>>]
    ELSE [found |-> TRUE, body |-> Slice(full_text, m.body, m.end)]

\* latex_utils.extract_section_body
extract_section_body(full_text, section_title, heading_command) ==
    Group2(full_text, search(full_text, heading_command, section_title))

\* replacer as it would be if it returned the new body without group 1
replacer_without_header(header, new_section_body) ==
    strip(new_section_body) \o <<"\n">>

\* replacer of server.update_overleaf_section: group 1 and the new body
replacer(header, new_section_body) ==
    header \o strip(new_section_body) \o <<"\n">>

\* the text with the match m replaced by what replacer returns for it, and
\* the number of substitutions made
Substitute(text, m, new_section_body) ==
    IF ~m.ok THEN [new_text |-> text, count |-> 0]
    ELSE [new_text |-> Slice(text, 1, m.start)
                       \o replacer(Slice(text, m.start, m.body), new_section_body)
                       \o Slice(text, m.end, Len(text) + 1),
          count |-> 1]

\* regex.subn(replacer, text, count=1) with the normalized body
subn(text, cmd, title, new_section_body) ==
    Substitute(text, search(text, cmd, title), new_section_body)

----------------------------------------------------------------------------
(* Lines and joins of Python's str.                                        *)

\* str.splitlines(); the texts of the model hold no line boundary but "\n"
RECURSIVE splitlines(_)
splitlines(s) ==
    IF s = <<>> THEN <<>>
    ELSE LET nl == {i \in 1..Len(s) : s[i] = "\n"}
         IN  IF nl = {} THEN <<s>>
             ELSE <<Slice(s, 1, Least(nl))>>
                  \o splitlines(SubSeq(s, Least(nl) + 1, Len(s)))

\* sep.join(parts)
RECURSIVE join(_, _)
join(sep, parts) ==
    IF parts = <<>> THEN <<>>
    ELSE IF Len(parts) = 1 THEN parts[1]
    ELSE parts[1] \o sep \o join(sep, Tail(parts))

\* str.startswith
startswith(s, prefix) == LitAt(s, 1, prefix)

\* the first position at or after i that holds no letter
SkipAlpha(s, i) == SkipClass(s, i, Alpha)

\* the first position at or after i that holds the character c, or 0
FirstChar(s, i, c) == First({k \in i..Len(s) : s[k] = c})

----------------------------------------------------------------------------
(* latex_utils.strip_latex_to_plain, one operator per step.                *)

\* lines 102-107: drop the comment lines, join the rest
DropComments(text) ==
    LET keep(line) == ~startswith(strip(line), <<"%">>)
    IN  join(<<"\n">>, SelectSeq(splitlines(text), keep))

\* re.sub scans from the left and resumes after each match; the operators
\* below recur once per match, from position i on.

\* line 110: backslash item and the whitespace after it become "- "
RECURSIVE ItemsFrom(_, _)
ItemsFrom(s, i) ==
    LET at == {k \in i..Len(s) : LitAt(s, k, <<BS, "i", "t", "e", "m">>)}
    IN  IF at = {} THEN Slice(s, i, Len(s) + 1)
        ELSE Slice(s, i, Least(at)) \o <<"-", " ">>
             \o ItemsFrom(s, SkipSpace(s, Least(at) + 5))

ItemsToBullets(s) == ItemsFrom(s, 1)

\* an optional star at position a: the position after it
OptStar(s, a) == IF a <= Len(s) /\ s[a] = "*" THEN a + 1 ELSE a

\* An optional [..] without "]" at position b: the position after it.  A
\* "[" that is never closed is not taken.
OptBracket(s, b) ==
    LET r == FirstChar(s, b + 1, "]")
    IN  IF b <= Len(s) /\ s[b] = "[" /\ r # 0 THEN r + 1 ELSE b

\* no command with an argument
NoArg == [ok |-> FALSE, arg |-> <<>>, next |-> 0]

\* the argument between the braces at positions c and d, where d = 0 says
\* that the brace at c is never closed
Argument(s, c, d) ==
    IF d = 0 THEN NoArg
    ELSE [ok |-> TRUE, arg |-> Slice(s, c + 1, d), next |-> d + 1]

\* {..} without "}" at position c
BracedArg(s, c) ==
    IF c <= Len(s) /\ s[c] = "{" THEN Argument(s, c, FirstChar(s, c + 1, "}"))
    ELSE NoArg

\* The pattern of line 113 at position i of s: a backslash, letters, an
\* optional star, an optional [..] without "]", and {..} without "}".
\* Every quantifier is greedy and what it gives back cannot start the next
\* item, so the match is the one below or none.
CommandWithArg(s, i) ==
    IF s[i] = BS /\ SkipAlpha(s, i + 1) > i + 1
    THEN BracedArg(s, OptBracket(s, OptStar(s, SkipAlpha(s, i + 1))))
    ELSE NoArg

\* line 113: a command with one argument becomes the argument
RECURSIVE ArgumentsFrom(_, _)
ArgumentsFrom(s, i) ==
    LET at == {k \in i..Len(s) : CommandWithArg(s, k).ok}
        m == CommandWithArg(s, Least(at))
    IN  IF at = {} THEN Slice(s, i, Len(s) + 1)
        ELSE Slice(s, i, Least(at)) \o m.arg \o ArgumentsFrom(s, m.next)

KeepArguments(s) == ArgumentsFrom(s, 1)

\* line 116: a backslash, letters and an optional star are removed
RECURSIVE CommandsFrom(_, _)
CommandsFrom(s, i) ==
    LET k == First({n \in i..Len(s) : s[n] = BS /\ SkipAlpha(s, n + 1) > n + 1})
    IN  IF k = 0 THEN Slice(s, i, Len(s) + 1)
        ELSE Slice(s, i, k) \o CommandsFrom(s, OptStar(s, SkipAlpha(s, k + 1)))

DropCommands(s) == CommandsFrom(s, 1)

\* line 119: a run of spaces and tabs becomes one space: the first blank of
\* a run is kept, as a space, and the other blanks of the run are dropped
CollapseBlanks(s) ==
    LET kept == SelectSeq([k \in 1..Len(s) |-> k],
                          LAMBDA k : s[k] \notin Blank \/ k = 1 \/ s[k - 1] \notin Blank)
    IN  [n \in 1..Len(kept) |-> IF s[kept[n]] \in Blank THEN " " ELSE s[kept[n]]]

\* The pattern of line 120 at position k: a line break, whitespace, and one
\* or more line breaks.  The greedy whitespace gives back down to the last
\* line break of the whitespace run, which the final one-or-more then takes
\* alone.  The position after the match, or 0.
BlankLinesEnd(s, k) ==
    LET e == SkipSpace(s, k + 1)
        nl == {n \in (k + 1)..(e - 1) : s[n] = "\n"}
    IN  IF s[k] = "\n" /\ nl # {} THEN Greatest(nl) + 1 ELSE 0

\* line 120
RECURSIVE BlankLinesFrom(_, _)
BlankLinesFrom(s, i) ==
    LET at == {k \in i..Len(s) : BlankLinesEnd(s, k) # 0}
    IN  IF at = {} THEN Slice(s, i, Len(s) + 1)
        ELSE Slice(s, i, Least(at)) \o <<"\n", "\n">>
             \o BlankLinesFrom(s, BlankLinesEnd(s, Least(at)))

CollapseBlankLines(s) == BlankLinesFrom(s, 1)

strip_latex_to_plain(text) ==
    strip(CollapseBlankLines(CollapseBlanks(DropCommands(
        KeepArguments(ItemsToBullets(DropComments(text)))))))

----------------------------------------------------------------------------
(* The sentence summarizer of server.summarize_overleaf_section.           *)

SentenceEnd == {".", "!", "?"}

\* re.split of line 229: the text is cut at every whitespace run that
\* follows ".", "!" or "?"; the pieces from position i on
RECURSIVE SplitFrom(_, _)
SplitFrom(s, i) ==
    LET at == {k \in (IF i > 2 THEN i ELSE 2)..Len(s) :
                  s[k - 1] \in SentenceEnd /\ s[k] \in Space}
    IN  IF at = {} THEN <<Slice(s, i, Len(s) + 1)>>
        ELSE <<Slice(s, i, Least(at))>> \o SplitFrom(s, SkipSpace(s, Least(at)))

split_sentences(plain) == SplitFrom(plain, 1)

\* [s.strip() for s in xs if s.strip()]
RECURSIVE StripNonEmpty(_)
StripNonEmpty(xs) ==
    IF xs = <<>> THEN <<>>
    ELSE (IF strip(Head(xs)) # <<>> THEN <<strip(Head(xs))>> ELSE <<>>)
         \o StripNonEmpty(Tail(xs))

\* xs[:n] for n >= 0
Take(xs, n) == SubSeq(xs, 1, IF n < Len(xs) THEN n ELSE Len(xs))

\* line 240
is_bullet(l) == startswith(l, <<"-", " ">>)

\* the choice of lines 241-246 as it would be without the second sentence
pick_example_first(bullet_lines, sentences) ==
    IF bullet_lines # <<>> THEN bullet_lines[1] ELSE sentences[1]

\* lines 241-246: the first bullet line, or the second sentence, or the
\* first one
pick_example(bullet_lines, sentences) ==
    IF bullet_lines # <<>> THEN bullet_lines[1]
    ELSE IF Len(sentences) > 1 THEN sentences[2]
    ELSE sentences[1]

\* lines 231-255, from the sentences on
summary_of(plain, sentences, max_sentences) ==
    IF sentences = <<>>
    THEN [status |-> "plain", summary |-> plain, example |-> <<>>]
    ELSE [status |-> "summary",
          summary |-> join(<<" ">>, Take(sentences, max_sentences)),
          example |-> pick_example(
              SelectSeq(StripNonEmpty(splitlines(plain)), is_bullet), sentences)]

\* lines 228-255, for a non-empty plain text: the summary and the example
summarize(plain, max_sentences) ==
    summary_of(plain, StripNonEmpty(split_sentences(plain)), max_sentences)

----------------------------------------------------------------------------
(* latex_utils.latex_preview.                                              *)

documentclass == <<BS,"d","o","c","u","m","e","n","t","c","l","a","s","s">>
usepackage == <<BS,"u","s","e","p","a","c","k","a","g","e">>
BeginDocument == <<BS,"b","e","g","i","n","{","d","o","c","u","m","e","n","t","}">>
item == <<BS,"i","t","e","m">>

\* line 26
section_cmds == {section, subsection, subsubsection, cvsection, chapter, sect}

LowerSeq == <<"a","b","c","d","e","f","g","h","i","j","k","l","m",
              "n","o","p","q","r","s","t","u","v","w","x","y","z">>

UpperSeq == <<"A","B","C","D","E","F","G","H","I","J","K","L","M",
              "N","O","P","Q","R","S","T","U","V","W","X","Y","Z">>

\* str.upper()
upper(s) ==
    [k \in 1..Len(s) |->
        IF s[k] \in Lower
        THEN UpperSeq[CHOOSE n \in 1..Len(LowerSeq) : LowerSeq[n] = s[k]]
        ELSE s[k]]

\* no heading
NoHeading == [ok |-> FALSE, cmd |-> <<>>, title |-> <<>>]

\* the heading whose name ends before position a and whose braces are m
Heading(stripped, a, m) ==
    IF m.ok THEN [ok |-> TRUE, cmd |-> Slice(stripped, 2, a), title |-> m.arg]
    ELSE NoHeading

\* the letters of the name end before position a
HeadingName(stripped, a) ==
    IF a > 2 THEN Heading(stripped, a, BracedArg(stripped, OptStar(stripped, a)))
    ELSE NoHeading

\* re.match of line 42 on a stripped line: a backslash, letters, an optional
\* star, and {..} without "}"
HeadingLine(stripped) ==
    IF stripped # <<>> /\ stripped[1] = BS
    THEN HeadingName(stripped, SkipAlpha(stripped, 2))
    ELSE NoHeading

\* lines 46-49: the title in capitals and a rule under it
Titled(title) == << <<>>, upper(title), [k \in 1..Len(title) |-> "-"] >>

\* lines 32-57: what a non-empty stripped line adds to out
Preview(stripped, m) ==
    IF startswith(stripped, <<"%">>) THEN <<>>
    ELSE IF startswith(stripped, documentclass) THEN <<>>
    ELSE IF startswith(stripped, usepackage) THEN <<>>
    ELSE IF startswith(stripped, BeginDocument) \/ startswith(stripped, EndDocument)
         THEN <<>>
    ELSE IF m.ok /\ m.cmd \in section_cmds THEN Titled(strip(m.title))
    ELSE IF startswith(stripped, item)
         THEN << <<"-", " ">> \o lstrip(SubSeq(stripped, Len(item) + 1, Len(stripped))) >>
    ELSE <<stripped>>

\* lines 28-57: what one line adds to out
Stripped(stripped) ==
    IF stripped = <<>> THEN <<>> ELSE Preview(stripped, HeadingLine(stripped))

PreviewLine(line) == Stripped(strip(line))

RECURSIVE PreviewLines(_)
PreviewLines(lines) ==
    IF lines = <<>> THEN <<>>
    ELSE PreviewLine(Head(lines)) \o PreviewLines(Tail(lines))

latex_preview(text) == strip(join(<<"\n">>, PreviewLines(splitlines(text))))

----------------------------------------------------------------------------
(* Bounds, and the documents and arguments the model draws.                *)

\* the most fragments of a document of the project at start
MaxFrags == 2

\* the most tool calls of one run of the server
MaxCalls == 1

\* server.summarize_overleaf_section, the default of max_sentences
DefaultMaxSentences == 3

TitleA == <<"A">>
TitleB == <<"B">>

\* a section A whose body holds a command that begins with n and ends in a
\* blank line
SectionA ==
    <<BS,"s","e","c","t","i","o","n","{","A","}","\n",
      "x"," ",BS,"n","e","w","l","i","n","e","\n","\n">>

\* a section B with a subsubsection in it
SectionB ==
    <<BS,"s","e","c","t","i","o","n","{","B","}","\n","y","\n",
      BS,"s","u","b","s","u","b","s","e","c","t","i","o","n","{","B","}","\n","z","\n">>

BuiltASystem ==
    <<"B","u","i","l","t"," ","a"," ","s","y","s","t","e","m","."," ",
      "I","t"," ","s","c","a","l","e","s"," ","w","e","l","l","."," ",
      "-"," ","H","a","n","d","l","e","s"," ","1","M"," ",
      "r","e","q","u","e","s","t","s",".","\n">>

EndOfDocument == EndDocument \o <<"\n">>

\* a starred section A of plain text, under the custom heading command sect
SectA == <<BS,"s","e","c","t","*","{","A","}","\n">> \o BuiltASystem

\* the sections a document is made of
Fragments == {SectionA, SectionB, SectA}

\* how a document ends: with its last section, or with the end marker
Endings == {<<>>, EndOfDocument}

\* the texts of main.tex at start: up to MaxFrags sections and an ending
Documents ==
    {join(<<>>, f) \o e :
        f \in UNION {[1..n -> Fragments] : n \in 0..MaxFrags}, e \in Endings}

\* the files of the project: main.tex, whose text is remote
Paths == {"main.tex", "notes.tex"}

exists(path) == path = "main.tex"

Titles == {TitleA, TitleB}

Commands == {section, sect}

RustCpp == <<"R","u","s","t",","," ","C","+","+">>

\* replacement bodies: empty, the body of the scenario, one with blanks
\* around it and a literal backslash-n in it, one with a heading in it
Bodies ==
    {<<>>, RustCpp, <<" ","p",BS,"n","q"," ">>,
     <<"k",BS,"s","e","c","t","i","o","n","{","B","}">>}

\* the environment variables read at import (overleaf_git.py lines 8-9):
\* both set and well-formed, or one of them missing
Configs == {"ok", "missing"}

\* The git commands of update_overleaf_section that can fail, as the sets
\* of failing commands that lead to different runs: a command after the
\* first failing one is not run, but for the push to master after main.
GitFailures ==
    {{}, {"config user.name"}, {"config user.email"}, {"add"}, {"commit"},
     {"push main"}, {"push main", "push master"}}

----------------------------------------------------------------------------
(* State.                                                                  *)
(*   config   the Overleaf configuration of the process                    *)
(*   remote   the text of main.tex in the Overleaf project                 *)
(*   TMPDIRS  the module-level list _TMPDIRS of overleaf_git               *)
(*   calls    the number of tool calls made                                *)
(*   last     the last tool call: what it did and how it ended, with the   *)
(*            arguments it had used by then                                *)

NoCall ==
    [tool |-> "none", path |-> "", raw |-> FALSE, title |-> <<>>, cmd |-> <<>>,
     body |-> <<>>, max |-> 0,
     status |-> "none", raised |-> FALSE, value |-> <<>>,
     read |-> FALSE, text |-> <<>>, new_text |-> <<>>, count |-> 0,
     written |-> FALSE, git |-> <<>>,
     found |-> FALSE, section |-> <<>>, plain |-> <<>>,
     summary |-> <<>>, example |-> <<>>]

Init ==
    /\ config \in Configs
    /\ remote \in Documents
    /\ TMPDIRS = <<>>
    /\ calls = 0
    /\ last = NoCall

----------------------------------------------------------------------------
(* overleaf_git.                                                           *)

\* clone_overleaf_repo: whether it raises, and _TMPDIRS after it.  The
\* temporary directory is appended after the configuration checks and
\* before the host check and the clone; git_clone_ok says that both pass.
clone_overleaf_repo(git_clone_ok) ==
    IF config = "missing"
    THEN [raised |-> TRUE, dirs |-> TMPDIRS]
    ELSE [raised |-> ~git_clone_ok, dirs |-> Append(TMPDIRS, calls + 1)]

\* run raises RuntimeError when the command fails
run(cmd, fails) == [raised |-> cmd \in fails]

----------------------------------------------------------------------------
(* The tools of server.py, one action each.  An argument of the call and   *)
(* an outcome of a collaborator (the clone, a git command) is drawn where  *)
(* the handler first uses it.                                              *)

\* what every tool does first: the clone, and the call counted
Called(c) ==
    /\ calls' = calls + 1
    /\ TMPDIRS' = c.dirs
    /\ UNCHANGED config

read_overleaf_file ==
    LET call == [NoCall EXCEPT !.tool = "read"]
        content == remote
    IN  /\ calls < MaxCalls
        /\ UNCHANGED remote
        /\ \E git_clone_ok \in BOOLEAN :
             LET c == clone_overleaf_repo(git_clone_ok)
             IN  /\ Called(c)
                 /\ IF c.raised
                    THEN last' = [call EXCEPT !.status = "clone_failed"]
                    ELSE \E path \in Paths :
                      IF ~exists(path)
                      THEN last' = [call EXCEPT !.path = path,
                                                !.status = "no_file"]
                      ELSE \E raw \in BOOLEAN :
                        last' = [call EXCEPT
                                   !.path = path, !.raw = raw,
                                   !.read = TRUE, !.text = content,
                                   !.status = IF raw THEN "content" ELSE "preview",
                                   !.value = IF raw THEN content
                                             ELSE latex_preview(content)]

list_overleaf_files ==
    LET call == [NoCall EXCEPT !.tool = "list"]
    IN  /\ calls < MaxCalls
        /\ UNCHANGED remote
        /\ \E git_clone_ok \in BOOLEAN :
             LET c == clone_overleaf_repo(git_clone_ok)
             IN  /\ Called(c)
                 /\ last' =
                      IF c.raised THEN [call EXCEPT !.status = "clone_failed"]
                      ELSE [call EXCEPT !.status = "files",
                                        !.value = <<"main.tex">>]

\* the handler as it would be without the check of count
substituted_unchecked(count) == TRUE

\* lines 155-157: the handler goes on to write the file when subn made a
\* substitution
substituted(count) == count # 0

\* lines 165-187: the git commands run, in order, and how the handler ends.
\* git commit fails when the text written is the text cloned.
GitSteps(fails, unchanged) ==
    LET cn == "config user.name"
        ce == "config user.email"
        raise(ran) == [ran |-> ran, status |-> "RuntimeError",
                       raised |-> TRUE, pushed |-> FALSE]
    IN  IF run(cn, fails).raised THEN raise(<<cn>>)
        ELSE IF run(ce, fails).raised THEN raise(<<cn, ce>>)
        ELSE IF run("add", fails).raised THEN raise(<<cn, ce, "add">>)
        ELSE IF run("commit", fails).raised \/ unchanged
             THEN [ran |-> <<cn, ce, "add", "commit">>,
                   status |-> "nothing_to_commit",
                   raised |-> FALSE, pushed |-> FALSE]
        ELSE IF ~run("push main", fails).raised
             THEN [ran |-> <<cn, ce, "add", "commit", "push main">>,
                   status |-> "success", raised |-> FALSE, pushed |-> TRUE]
        ELSE IF ~run("push master", fails).raised
             THEN [ran |-> <<cn, ce, "add", "commit", "push main", "push master">>,
                   status |-> "success", raised |-> FALSE, pushed |-> TRUE]
        ELSE raise(<<cn, ce, "add", "commit", "push main", "push master">>)

\* the bodies a caller sends: the fixed ones, and the body the section has
NewBodies(title, cmd) ==
    Bodies \cup {extract_section_body(remote, title, cmd).body}

\* lines 124-187, from the file read on; a local of the handler is bound
\* where the code assigns it
UpdateSection(path, section_title, new_section_body, heading_command) ==
    \E text \in {remote} :
    \E r \in {subn(text, heading_command, section_title,
                   normalize_latex_content(new_section_body))} :
      LET scanned == [NoCall EXCEPT !.tool = "update",
                                    !.path = path, !.title = section_title,
                                    !.cmd = heading_command,
                                    !.body = new_section_body,
                                    !.read = TRUE, !.text = text,
                                    !.new_text = r.new_text, !.count = r.count]
      IN  IF ~substituted(r.count)
          THEN last' = [scanned EXCEPT !.status = "not_found"]
               /\ UNCHANGED remote
          ELSE \E fails \in GitFailures :
               \E g \in {GitSteps(fails, r.new_text = text)} :
                 /\ last' = [scanned EXCEPT !.written = TRUE, !.git = g.ran,
                                            !.status = g.status,
                                            !.raised = g.raised]
                 /\ remote' = IF g.pushed THEN r.new_text ELSE remote

update_overleaf_section ==
    LET call == [NoCall EXCEPT !.tool = "update"]
    IN  /\ calls < MaxCalls
        /\ \E git_clone_ok \in BOOLEAN :
             LET c == clone_overleaf_repo(git_clone_ok)
             IN  /\ Called(c)
                 /\ IF c.raised
                    THEN last' = [call EXCEPT !.status = "clone_failed"]
                         /\ UNCHANGED remote
                    ELSE \E path \in Paths :
                      IF ~exists(path)
                      THEN last' = [call EXCEPT !.path = path,
                                                !.status = "no_file"]
                           /\ UNCHANGED remote
                      ELSE \E title \in Titles, cmd \in Commands :
                             \E body \in NewBodies(title, cmd) :
                                UpdateSection(path, title, body, cmd)

\* lines 214-255, from the file read on; a local of the handler is bound
\* where the code assigns it
SummarizeSection(path, section_title, heading_command) ==
    \E max_sentences \in 1..DefaultMaxSentences :
    \E full_text \in {remote} :
    \E body \in {extract_section_body(full_text, section_title, heading_command)} :
      LET asked == [NoCall EXCEPT !.tool = "summarize",
                                  !.path = path, !.title = section_title,
                                  !.cmd = heading_command, !.max = max_sentences,
                                  !.read = TRUE, !.text = full_text]
      IN  IF ~body.found THEN last' = [asked EXCEPT !.status = "not_found"]
          ELSE \E plain \in {strip_latex_to_plain(body.body)} :
            IF plain = <<>>
            THEN last' = [asked EXCEPT !.found = TRUE, !.section = body.body,
                                       !.status = "empty"]
            ELSE \E s \in {summarize(plain, max_sentences)} :
              last' = [asked EXCEPT !.found = TRUE, !.section = body.body,
                                    !.plain = plain, !.status = s.status,
                                    !.summary = s.summary, !.example = s.example]

summarize_overleaf_section ==
    LET call == [NoCall EXCEPT !.tool = "summarize"]
    IN  /\ calls < MaxCalls
        /\ UNCHANGED remote
        /\ \E git_clone_ok \in BOOLEAN :
             LET c == clone_overleaf_repo(git_clone_ok)
             IN  /\ Called(c)
                 /\ IF c.raised
                    THEN last' = [call EXCEPT !.status = "clone_failed"]
                    ELSE \E path \in Paths :
                      IF ~exists(path)
                      THEN last' = [call EXCEPT !.path = path,
                                                !.status = "no_file"]
                      ELSE \E title \in Titles, cmd \in Commands :
                             SummarizeSection(path, title, cmd)

Next ==
    \/ read_overleaf_file
    \/ list_overleaf_files
    \/ update_overleaf_section
    \/ summarize_overleaf_section

Spec == Init /\ [][Next]_vars

----------------------------------------------------------------------------
(* Notions the claims use.                                                 *)

\* the heading of (cmd, title), starred or not, occurs in text
Occurs(text, cmd, title) ==
    \E i \in 1..Len(text) : HeadingEnd(text, i, cmd, title) # 0

\* the last n characters of s
Last(s, n) == SubSeq(s, Len(s) - n + 1, Len(s))

\* tail is a suffix of s
IsSuffix(tail, s) == Len(tail) <= Len(s) /\ Last(s, Len(tail)) = tail

\* an update-section call that made its substitution
Updated == last.tool = "update" /\ last.count = 1

\* a summarize-section call that read the file and looked for the section
Located == last.tool = "summarize" /\ last.read

\* normalize(B).trim() of the update's body
NewBody == strip(normalize_latex_content(last.body))

\* the universal stop-set as the claims state it
StopSet == {section, subsection, subsubsection, chapter, cvsection}

AllThree ==
    <<"B","u","i","l","t"," ","a"," ","s","y","s","t","e","m","."," ",
      "I","t"," ","s","c","a","l","e","s"," ","w","e","l","l","."," ",
      "-"," ","H","a","n","d","l","e","s"," ","1","M"," ",
      "r","e","q","u","e","s","t","s",".">>

FirstTwo == SubSeq(AllThree, 1, 31)

ItScalesWell == SubSeq(AllThree, 17, 31)

HandlesRequests == SubSeq(AllThree, 33, Len(AllThree))

----------------------------------------------------------------------------
(* C1                                                                      *)

\* C1 as stated: an update changes only the body span of the first matching
\* heading: the text up to and including the heading, and the text from the
\* end of the old body's last non-whitespace character onward, are the same
\* in the updated document.
C1_TrailingWhitespaceKept ==
    Updated =>
      \A m \in {search(last.text, last.cmd, last.title)} :
        /\ SubSeq(last.new_text, 1, m.body - 1) = SubSeq(last.text, 1, m.body - 1)
        /\ IsSuffix(SubSeq(last.text,
                           m.body + Len(rstrip(Slice(last.text, m.body, m.end))),
                           Len(last.text)),
                    last.new_text)

\* C1 as amended: an update that substitutes changes only the span from the
\* first character after the first matching heading and the whitespace that
\* follows it, up to the next stop token: the text before that span, the
\* heading and its whitespace included, and the text from the stop token on,
\* are the same in the updated document; the span itself becomes
\* normalize(B).trim() and one line break; one substitution is made; and the
\* project holds the updated text once it is pushed, the old text otherwise.
C1_BodySpanReplaced ==
    /\ last.count \in {0, 1}
    /\ last.tool = "update" /\ last.count = 0 => last.new_text = last.text
    /\ Updated =>
         \A m \in {search(last.text, last.cmd, last.title)} :
         \A tail \in {Len(last.text) - m.end + 1} :
           /\ m.ok
           /\ SubSeq(last.new_text, 1, m.body - 1) = SubSeq(last.text, 1, m.body - 1)
           /\ Last(last.new_text, tail) = Last(last.text, tail)
           /\ SubSeq(last.new_text, m.body, Len(last.new_text) - tail)
                = NewBody \o <<"\n">>
           /\ last.written
           /\ remote = IF last.status = "success" THEN last.new_text ELSE last.text

\* an update of section B, which follows section A and precedes the end
\* marker, was pushed
C1_Witness ==
    /\ Updated
    /\ last.status = "success"
    /\ last.title = TitleB /\ last.cmd = section /\ last.body = RustCpp
    /\ last.text = SectionA \o SectionB \o EndOfDocument
    /\ remote # last.text

----------------------------------------------------------------------------
(* C2                                                                      *)

\* C2: replacing a section with the body located for it changes only the
\* trailing whitespace of that body: the text before the body, the text from
\* the next stop token on, and the body without its trailing whitespace are
\* the same in the updated document.
C2_RoundTrip ==
    (Updated /\ last.body = extract_section_body(last.text, last.title, last.cmd).body) =>
      \A m \in {search(last.text, last.cmd, last.title)} :
      \A tail \in {Len(last.text) - m.end + 1} :
        /\ SubSeq(last.new_text, 1, m.body - 1) = SubSeq(last.text, 1, m.body - 1)
        /\ Last(last.new_text, tail) = Last(last.text, tail)
        /\ rstrip(SubSeq(last.new_text, m.body, Len(last.new_text) - tail))
             = rstrip(Slice(last.text, m.body, m.end))

----------------------------------------------------------------------------
(* C3                                                                      *)

\* C3: the same update applied to the updated document leaves it as it is.
C3_Idempotent ==
    Updated =>
      subn(last.new_text, last.cmd, last.title,
           normalize_latex_content(last.body)).new_text = last.new_text

----------------------------------------------------------------------------
(* C4                                                                      *)

\* C4: a located body holds no heading token of the requested command nor
\* of a command of the stop-set section, subsection, subsubsection, chapter,
\* cvsection.
C4_BodyHasNoHeading ==
    (Located /\ last.found) =>
      \A k \in 1..Len(last.section) :
        \A word \in StopSet \cup {last.cmd} : ~CommandAt(last.section, k, word)

----------------------------------------------------------------------------
(* C5                                                                      *)

\* C5: when the heading occurs in the document, locate returns a body.
C5_HeadingIsLocated ==
    (Located /\ Occurs(last.text, last.cmd, last.title)) => last.found

----------------------------------------------------------------------------
(* C6                                                                      *)

\* C6: after a successful update with body B, locate on the updated document
\* returns normalize(B).trim() followed by one line break.
C6_LocateAfterUpdate ==
    (Updated /\ last.status = "success") =>
      extract_section_body(remote, last.title, last.cmd)
        = [found |-> TRUE, body |-> NewBody \o <<"\n">>]

----------------------------------------------------------------------------
(* C7                                                                      *)

\* C7: when the heading of the requested title and command does not occur
\* in the document read, locate returns NotFound, and update-section returns
\* its not-found status, writes no file, runs no git command and leaves the
\* project as it was.
C7_NotFoundNoMutation ==
    (last.read /\ ~Occurs(last.text, last.cmd, last.title)) =>
      /\ Located => last.status = "not_found" /\ ~last.found
      /\ last.tool = "update" =>
           /\ last.status = "not_found"
           /\ ~last.written
           /\ last.git = <<>>
           /\ last.new_text = last.text
           /\ remote = last.text

\* an update asked for a section B of a document that has only sections A
C7_Witness ==
    /\ last.tool = "update"
    /\ last.read
    /\ last.title = TitleB /\ last.cmd = section
    /\ last.text = SectionA \o SectA \o EndOfDocument
    /\ last.status = "not_found"

----------------------------------------------------------------------------
(* C8                                                                      *)

\* C8: no call of a tool ends by a fault raised to the caller.
C8_NoFault == ~last.raised

----------------------------------------------------------------------------
(* C9                                                                      *)

\* C9 as stated: the section text "Built a system. It scales well.
\* - Handles 1M requests." and a line break, summarized with three
\* sentences at most, gives the first two sentences as the summary and the
\* third as the example.
C9_TwoSentencesAndBullet ==
    (Located /\ last.section = BuiltASystem /\ last.max = DefaultMaxSentences) =>
      last.summary = FirstTwo /\ last.example = HandlesRequests

\* C9 as amended: that text, summarized with three sentences at most, gives
\* all three sentences "Built a system. It scales well. - Handles 1M
\* requests." as the summary and the second sentence "It scales well." as
\* the example; handed to the summarizer with or without its line break.
C9_ThreeSentencesAndSecond ==
    (Located /\ last.section = BuiltASystem /\ last.max = DefaultMaxSentences) =>
      /\ last.status = "summary"
      /\ last.summary = AllThree /\ last.example = ItScalesWell
      /\ summarize(last.section, last.max).summary = AllThree
      /\ summarize(last.section, last.max).example = ItScalesWell

\* the section of that text was summarized with three sentences at most
C9_Witness ==
    /\ Located
    /\ last.section = BuiltASystem
    /\ last.max = DefaultMaxSentences
    /\ last.status = "summary"

----------------------------------------------------------------------------
(* C10                                                                     *)

\* C10: no temporary directory stays held in the process once a call is over.
C10_NothingHeld == TMPDIRS = <<>>

====
